---------------------------- MODULE Spec2Model ----------------------------
(***************************************************************************)
(* Model of the AWS Cleanup Tool API (src/backend/main.py).                *)
(*                                                                         *)
(* Two request handlers are modelled:                                      *)
(*   list_resources   (POST /list)   - the scanner,   specification        *)
(*                                     SpecList                            *)
(*   delete_resources (POST /delete) - the deletion orchestrator,          *)
(*                                     specification SpecDelete            *)
(* and SpecRoundTrip is a scan followed by the deletion of one record of   *)
(* its result.                                                             *)
(*                                                                         *)
(* The cloud provider is the environment.  For a scan it is a fixed        *)
(* inventory (what each listing call returns) plus a fault (which provider *)
(* operation raises, and with which exception class).  For a deletion the  *)
(* outcome of every provider call is chosen when the call is made.         *)
(*                                                                         *)
(* calls is a history variable: the provider calls made so far, in order.  *)
(***************************************************************************)
EXTENDS Integers, Sequences, FiniteSets, TLC

VARIABLES
    handler,     \* "list" | "delete": the handler serving the request
    payload,     \* the request body (ListRequest | DeleteRequest)
    inventory,   \* provider: resource type -> raw records its lister returns
    fault,       \* provider: the operation that raises, or NoFault
    pc,          \* position of the handler
    ri,          \* list_resources: index of the current region (outer loop)
    ti,          \* list_resources: index of the current type (inner loop)
    matched,     \* list_resources: the accumulator `matched`; in a round trip,
                 \* once the scan returned: the record fed back to /delete
    i,           \* delete_resources: index of the current item `r`
    results,     \* delete_resources: the list `results`
    errors,      \* delete_resources: the list `errors`
    todo,        \* delete_resources: elements the current `for` loop has left
    calls,       \* history: provider calls made (scan: all; delete: this item)
    dispatched,  \* history: indices of the items whose branch was entered
    response     \* what the handler returned or raised; NoResponse before

vars == <<handler, payload, inventory, fault, pc, ri, ti, matched, i, results,
          errors, todo, calls, dispatched, response>>

-----------------------------------------------------------------------------
(* Values *)

\* Python's None (an absent optional field, or dict.get of a missing key)
None == "<None>"

NoFault == [op |-> None, kind |-> None]

NoResponse == [status |-> None]

\* The two exception classes the handlers tell apart: botocore's ClientError,
\* and anything else (BotoCoreError, ParamValidationError, KeyError, ...)
ClientError == "ClientError"

OtherError == "Exception"

ErrorKinds == {ClientError, OtherError}

\* sts.get_caller_identity()["Account"] of the ambient credentials
AccountId == "111122223333"

\* The four resource types the handlers have a branch for
SupportedTypes == {"ec2:instance", "s3:bucket", "rds:db", "iam:user"}

\* payload.resource_types or [...]: the default list, in its order
DefaultResourceTypes == <<"ec2:instance", "s3:bucket", "rds:db", "iam:user">>

\* _default_regions()
DefaultRegions ==
    <<"us-east-1", "us-east-2", "us-west-1", "us-west-2",
      "eu-west-1", "eu-west-2", "eu-central-1",
      "ap-south-1", "ap-southeast-1", "ap-southeast-2">>

-----------------------------------------------------------------------------
(* Bounds and input sets *)

\* longest resource_types list of a scan request
MaxTypes == 2

\* most raw records one lister returns
MaxRaw == 3

\* most items of a delete request
MaxItems == 2

\* most elements one IAM listing call (keys, policies, groups) returns
MaxListed == 2

\* type identifiers a request may name: the supported four and one other
TypeIds == SupportedTypes \cup {"foo:bar"}

\* regions lists of a scan request: omitted (None and [] are both falsy for
\* `payload.regions or ...`, and the list is read nowhere else, so <<>> stands
\* for both), one region, two regions, one region twice
RegionLists ==
    {<<>>, <<"us-east-1">>, <<"us-east-1", "eu-west-1">>,
     <<"eu-west-1", "eu-west-1">>}

Scopes == {"account", "org", "tag"}

TagKeys == {None, "", "Owner"}

TagValues == {None, "alice@example.com"}

\* Sequences over S of length at most n
SeqsUpTo(S, n) == UNION {[1..k -> S] : k \in 0..n}

-----------------------------------------------------------------------------
(* The provider's inventory *)

\* The Tags / TagSet / TagList a provider may return for one resource: a list
\* of {"Key": k, "Value": v}; "Value" may be missing
RawTagLists ==
    << <<[Key |-> "Owner", Value |-> "alice@example.com"]>>,
       <<>>,
       <<[Key |-> "Env", Value |-> "alice@example.com"], [Key |-> "Owner"]>>,
       <<[Key |-> "Owner", Value |-> "bob@example.com"]>> >>

\* Provider-assigned identifiers, by resource type and position in the listing
\* (InstanceId, bucket Name, DBInstanceIdentifier, UserName)
RawIds ==
    [t \in SupportedTypes |->
        CASE t = "ec2:instance" -> <<"i-1", "i-2", "i-3", "i-4">>
          [] t = "s3:bucket"    -> <<"bucket-1", "bucket-2", "bucket-3", "bucket-4">>
          [] t = "rds:db"       -> <<"db-1", "db-2", "db-3", "db-4">>
          [] t = "iam:user"     -> <<"user-1", "user-2", "user-3", "user-4">>]

\* Lifecycle status the provider reports (State.Name, DBInstanceStatus)
RawState(t) ==
    CASE t = "ec2:instance" -> "running"
      [] t = "rds:db"       -> "available"
      [] OTHER              -> None

\* Where in RawTagLists the tags of the first record of type t are taken
\* from, so that the types differ in how their records are tagged
TagOffset(t) ==
    CASE t = "ec2:instance" -> 0
      [] t = "s3:bucket"    -> 1
      [] t = "rds:db"       -> 2
      [] t = "iam:user"     -> 3

\* An account holding n resources of every type
Account(n) ==
    [t \in SupportedTypes |->
        [j \in 1..n |->
            [id    |-> RawIds[t][j],
             Tags  |-> RawTagLists[((j - 1 + TagOffset(t)) % Len(RawTagLists)) + 1],
             state |-> RawState(t)]]]

\* What the account may hold: nothing, or MaxRaw resources of every type
Inventories == {Account(0), Account(MaxRaw)}

\* Provider operations the handlers call
ListOps ==
    {"ec2.describe_instances", "s3.list_buckets", "rds.describe_db_instances",
     "iam.list_users"}

TagOps ==
    {"s3.get_bucket_tagging", "rds.list_tags_for_resource",
     "iam.list_user_tags"}

IdentityOps == {"sts.get_caller_identity"}

ScanOps == ListOps \cup TagOps \cup IdentityOps

\* A fault: every call of op raises an exception of class kind
Faults == {NoFault} \cup [op : ScanOps, kind : ErrorKinds]

\* The exception class a call of op raises under fault f, None if it returns
Raises(f, op) == IF f.op = op THEN f.kind ELSE None

-----------------------------------------------------------------------------
(* list_resources: the scanner *)

\* payload.regions or _default_regions()
EffectiveRegions(p) == IF p.regions = <<>> THEN DefaultRegions ELSE p.regions

\* payload.resource_types or ["ec2:instance", "s3:bucket", "rds:db", "iam:user"]
EffectiveTypes(p) ==
    IF p.resource_types = <<>> THEN DefaultResourceTypes ELSE p.resource_types

\* t.get("Value", "")
TagValue(t) == IF "Value" \in DOMAIN t THEN t.Value ELSE ""

\* {t["Key"]: t.get("Value", "") for t in raw}: a later entry of a key
\* overwrites an earlier one
TagMap(raw) ==
    [k \in {raw[j].Key : j \in DOMAIN raw} |->
        LET last == CHOOSE j \in DOMAIN raw :
                        /\ raw[j].Key = k
                        /\ \A m \in DOMAIN raw : raw[m].Key = k => m <= j
        IN  TagValue(raw[last])]

\* The empty dict
NoTags == TagMap(<<>>)

\* Python truthiness of an optional string: neither None nor ""
Truthy(s) == s # None /\ s # ""

\* Mutant of TagMatches: the value of the tag is not compared
TagMatches_IgnoresValue(p, tags) ==
    /\ Truthy(p.tag_key)
    /\ p.tag_key \in DOMAIN tags

\* Mutant of TagMatches: without a tag_key there is nothing to test, and
\* every record passes
TagMatches_NoKeyMatchesAll(p, tags) ==
    \/ ~Truthy(p.tag_key)
    \/ /\ p.tag_key \in DOMAIN tags
       /\ (p.tag_value = None \/ tags[p.tag_key] = p.tag_value)

\* The tag test of scope "tag":
\*   payload.tag_key and payload.tag_key in tags and
\*   (payload.tag_value is None or tags.get(payload.tag_key) == payload.tag_value)
TagMatches(p, tags) ==
    /\ Truthy(p.tag_key)
    /\ p.tag_key \in DOMAIN tags
    /\ (p.tag_value = None \/ tags[p.tag_key] = p.tag_value)

\* Mutant of Keeps: the tag test is applied whenever a tag_key is given,
\* whatever the scope
Keeps_FiltersAnyScope(p, tags) ==
    IF p.filter_scope = "tag" \/ Truthy(p.tag_key) THEN TagMatches(p, tags)
    ELSE TRUE

\* if scope == "tag": <append if the tag test holds> else: <append>
Keeps(p, tags) == IF p.filter_scope = "tag" THEN TagMatches(p, tags) ELSE TRUE

\* One provider call, as recorded in calls
Call(op, region, arg) == [op |-> op, region |-> region, arg |-> arg]

\* The effect of a stretch of code: the provider calls it made, the records
\* it appended to matched, and the exception that ended it (None: it ran on)
Effect(cs, recs, err) == [calls |-> cs, recs |-> recs, err |-> err]

\* a, then b unless a raised
Then(a, b) ==
    IF a.err # None THEN a
    ELSE Effect(a.calls \o b.calls, a.recs \o b.recs, b.err)

\* account_id = boto3.client("sts").get_caller_identity()["Account"], then
\* the scope test and matched.append(rec)
IdentifyAndKeep(p, f, rec) ==
    LET c == <<Call("sts.get_caller_identity", None, None)>>
    IN  IF Raises(f, "sts.get_caller_identity") # None
        THEN Effect(c, <<>>, Raises(f, "sts.get_caller_identity"))
        ELSE Effect(c, IF Keeps(p, rec.tags) THEN <<rec>> ELSE <<>>, None)

\* Mutant of Ec2Record: the record carries the service name, not rtype
Ec2Record_ServiceAsType(p, f, region, inst) ==
    IdentifyAndKeep(p, f,
        [id |-> inst.id, resource_type |-> "ec2", region |-> region,
         account_id |-> AccountId, tags |-> TagMap(inst.Tags),
         state |-> inst.state])

\* Mutant of Ec2Record: an instance is terminated as soon as it is matched
Ec2Record_TerminatesMatched(p, f, region, inst) ==
    LET a == IdentifyAndKeep(p, f,
                 [id |-> inst.id, resource_type |-> "ec2:instance",
                  region |-> region, account_id |-> AccountId,
                  tags |-> TagMap(inst.Tags), state |-> inst.state])
    IN  IF a.recs = <<>> THEN a
        ELSE Then(a, Effect(<<Call("ec2.terminate_instances", region, inst.id)>>,
                            <<>>, None))

\* The body of `for inst in resv.get("Instances", [])`
Ec2Record(p, f, region, inst) ==
    IdentifyAndKeep(p, f,
        [id |-> inst.id, resource_type |-> "ec2:instance", region |-> region,
         account_id |-> AccountId, tags |-> TagMap(inst.Tags),
         state |-> inst.state])

\* Mutant of S3Record: the name is read under a key the bucket does not
\* have, so the record gets no id
S3Record_Unnamed(p, f, region, b) ==
    LET c   == <<Call("s3.get_bucket_tagging", None, b.id)>>
        exc == Raises(f, "s3.get_bucket_tagging")
        tags == IF exc = None THEN TagMap(b.Tags) ELSE NoTags
    IN  IF exc = OtherError
        THEN Effect(c, <<>>, exc)
        ELSE Then(Effect(c, <<>>, None),
                  IdentifyAndKeep(p, f,
                      [id |-> None, resource_type |-> "s3:bucket",
                       region |-> region, account_id |-> AccountId,
                       tags |-> tags]))

\* Mutant of S3Record: the tags of a bucket are fetched only when the scope
\* needs them
S3Record_TagsOnDemand(p, f, region, b) ==
    LET need == p.filter_scope = "tag"
        c   == IF need THEN <<Call("s3.get_bucket_tagging", None, b.id)>>
               ELSE <<>>
        exc == IF need THEN Raises(f, "s3.get_bucket_tagging") ELSE None
        tags == IF need /\ exc = None THEN TagMap(b.Tags) ELSE NoTags
    IN  IF exc = OtherError
        THEN Effect(c, <<>>, exc)
        ELSE Then(Effect(c, <<>>, None),
                  IdentifyAndKeep(p, f,
                      [id |-> b.id, resource_type |-> "s3:bucket",
                       region |-> region, account_id |-> AccountId,
                       tags |-> tags]))

\* The body of `for b in buckets`: the tag fetch is inside try/except
\* ClientError: pass, so a ClientError leaves tags = {}
S3Record(p, f, region, b) ==
    LET c   == <<Call("s3.get_bucket_tagging", None, b.id)>>
        exc == Raises(f, "s3.get_bucket_tagging")
        tags == IF exc = None THEN TagMap(b.Tags) ELSE NoTags
    IN  IF exc = OtherError
        THEN Effect(c, <<>>, exc)
        ELSE Then(Effect(c, <<>>, None),
                  IdentifyAndKeep(p, f,
                      [id |-> b.id, resource_type |-> "s3:bucket",
                       region |-> region, account_id |-> AccountId,
                       tags |-> tags]))

\* The body of `for dbi in dbs`: the tag fetch is not inside any try of its
\* own
RdsRecord(p, f, region, dbi) ==
    LET c   == <<Call("rds.list_tags_for_resource", region, dbi.id)>>
        exc == Raises(f, "rds.list_tags_for_resource")
    IN  IF exc # None
        THEN Effect(c, <<>>, exc)
        ELSE Then(Effect(c, <<>>, None),
                  IdentifyAndKeep(p, f,
                      [id |-> dbi.id, resource_type |-> "rds:db",
                       region |-> region, account_id |-> AccountId,
                       tags |-> TagMap(dbi.Tags), state |-> dbi.state]))

\* The body of `for u in users`: the tag fetch is inside try/except
\* ClientError: pass
IamRecord(p, f, region, u) ==
    LET c   == <<Call("iam.list_user_tags", None, u.id)>>
        exc == Raises(f, "iam.list_user_tags")
        tags == IF exc = None THEN TagMap(u.Tags) ELSE NoTags
    IN  IF exc = OtherError
        THEN Effect(c, <<>>, exc)
        ELSE Then(Effect(c, <<>>, None),
                  IdentifyAndKeep(p, f,
                      [id |-> u.id, resource_type |-> "iam:user",
                       region |-> region, account_id |-> AccountId,
                       tags |-> tags]))

\* The per-record body of the branch of rtype
ScanRecord(p, f, region, rtype, raw) ==
    CASE rtype = "ec2:instance" -> Ec2Record(p, f, region, raw)
      [] rtype = "s3:bucket"    -> S3Record(p, f, region, raw)
      [] rtype = "rds:db"       -> RdsRecord(p, f, region, raw)
      [] rtype = "iam:user"     -> IamRecord(p, f, region, raw)

\* The `for` loop over the raw records of one listing, in order, ended by
\* the first exception
RECURSIVE ScanRecords(_, _, _, _, _)
ScanRecords(p, f, region, rtype, raws) ==
    IF raws = <<>> THEN Effect(<<>>, <<>>, None)
    ELSE LET a == ScanRecord(p, f, region, rtype, Head(raws))
         IN  IF a.err # None THEN a
             ELSE Then(a, ScanRecords(p, f, region, rtype, Tail(raws)))

\* The listing call of a supported type, and the region its client is bound
\* to (s3g and iam are built without a region)
ListOp(rtype) ==
    CASE rtype = "ec2:instance" -> "ec2.describe_instances"
      [] rtype = "s3:bucket"    -> "s3.list_buckets"
      [] rtype = "rds:db"       -> "rds.describe_db_instances"
      [] rtype = "iam:user"     -> "iam.list_users"

ListRegion(rtype, region) ==
    IF rtype \in {"ec2:instance", "rds:db"} THEN region ELSE None

\* Mutant of ScanPair: an unsupported rtype raises instead of being skipped
ScanPair_RaisesOnUnknown(p, f, inv, region, rtype) ==
    IF rtype \notin SupportedTypes THEN Effect(<<>>, <<>>, OtherError)
    ELSE LET c == <<Call(ListOp(rtype), ListRegion(rtype, region), None)>>
         IN  IF Raises(f, ListOp(rtype)) # None
             THEN Effect(c, <<>>, Raises(f, ListOp(rtype)))
             ELSE Then(Effect(c, <<>>, None),
                       ScanRecords(p, f, region, rtype, inv[rtype]))

\* One iteration of the inner loop, for (region, rtype): the if/elif chain.
\* An unsupported rtype takes the else branch: continue
ScanPair(p, f, inv, region, rtype) ==
    IF rtype \notin SupportedTypes THEN Effect(<<>>, <<>>, None)
    ELSE LET c == <<Call(ListOp(rtype), ListRegion(rtype, region), None)>>
         IN  IF Raises(f, ListOp(rtype)) # None
             THEN Effect(c, <<>>, Raises(f, ListOp(rtype)))
             ELSE Then(Effect(c, <<>>, None),
                       ScanRecords(p, f, region, rtype, inv[rtype]))

\* except ClientError -> HTTPException(400); except Exception -> 500
ScanFailure(err) ==
    [status |-> IF err = ClientError THEN 400 ELSE 500, detail |-> err]

\* return {"count": len(matched), "resources": matched}
ScanResult(m) == [status |-> 200, count |-> Len(m), resources |-> m]

\* list_resources as a function of the request and the provider: both loops
\* from (region r, type t) on, with m matched and cs called so far
RECURSIVE ScanFrom(_, _, _, _, _, _, _)
ScanFrom(p, f, inv, r, t, m, cs) ==
    IF r > Len(EffectiveRegions(p))
    THEN [response |-> ScanResult(m), calls |-> cs]
    ELSE LET e == ScanPair(p, f, inv, EffectiveRegions(p)[r],
                           EffectiveTypes(p)[t])
         IN  IF e.err # None
             THEN [response |-> ScanFailure(e.err), calls |-> cs \o e.calls]
             ELSE IF t < Len(EffectiveTypes(p))
                  THEN ScanFrom(p, f, inv, r, t + 1, m \o e.recs,
                                cs \o e.calls)
                  ELSE ScanFrom(p, f, inv, r + 1, 1, m \o e.recs,
                                cs \o e.calls)

Scan(p, f, inv) == ScanFrom(p, f, inv, 1, 1, <<>>, <<>>)

ListRequests ==
    [filter_scope : Scopes, tag_key : TagKeys, tag_value : TagValues,
     resource_types : SeqsUpTo(TypeIds, MaxTypes), regions : RegionLists]

\* The provider operations the branch of rtype calls when its lister returns
\* raws
OpsOf(rtype, raws) ==
    IF rtype \notin SupportedTypes THEN {}
    ELSE {ListOp(rtype)} \cup
         (IF raws = <<>> THEN {}
          ELSE {"sts.get_caller_identity"} \cup
               (CASE rtype = "s3:bucket" -> {"s3.get_bucket_tagging"}
                  [] rtype = "rds:db"    -> {"rds.list_tags_for_resource"}
                  [] rtype = "iam:user"  -> {"iam.list_user_tags"}
                  [] OTHER               -> {}))

\* A fault on an operation the scan of p never calls changes nothing, so the
\* initial states leave it out
FaultsFor(p, inv) ==
    {f \in Faults :
        \/ f = NoFault
        \/ \E k \in DOMAIN EffectiveTypes(p) :
              f.op \in OpsOf(EffectiveTypes(p)[k], 
                             IF EffectiveTypes(p)[k] \in SupportedTypes
                             THEN inv[EffectiveTypes(p)[k]] ELSE <<>>)}

InitList ==
    /\ handler = "list"
    /\ payload \in ListRequests
    /\ inventory \in Inventories
    /\ fault \in FaultsFor(payload, inventory)
    /\ pc = "scan"
    /\ ri = 1
    /\ ti = 1
    /\ matched = <<>>
    /\ calls = <<>>
    /\ response = NoResponse
    /\ i = 0
    /\ results = <<>>
    /\ errors = <<>>
    /\ todo = <<>>
    /\ dispatched = <<>>

\* Mutant of ListStep: the loops are nested the other way round, types
\* outside (counted by ri) and regions inside (counted by ti)
ListStep_TypeOuter ==
    /\ handler = "list"
    /\ pc = "scan"
    /\ ri <= Len(EffectiveTypes(payload))
    /\ ri <= Len(EffectiveRegions(payload))
    /\ LET region == EffectiveRegions(payload)[ti]
           rtype  == EffectiveTypes(payload)[ri]
           e      == ScanPair(payload, fault, inventory, region, rtype)
       IN  /\ calls' = calls \o e.calls
           /\ matched' = matched \o e.recs
           /\ IF e.err # None
              THEN /\ response' = ScanFailure(e.err)
                   /\ pc' = "done"
                   /\ UNCHANGED <<ri, ti>>
              ELSE /\ UNCHANGED <<response, pc>>
                   /\ IF ti < Len(EffectiveRegions(payload))
                      THEN ti' = ti + 1 /\ ri' = ri
                      ELSE ti' = 1 /\ ri' = ri + 1
    /\ UNCHANGED <<handler, payload, inventory, fault, i, results, errors,
                   todo, dispatched>>

\* Mutant of ListStep: a pair that raised is left out and the scan goes on
ListStep_SkipsFailedPair ==
    /\ handler = "list"
    /\ pc = "scan"
    /\ ri <= Len(EffectiveRegions(payload))
    /\ LET region == EffectiveRegions(payload)[ri]
           rtype  == EffectiveTypes(payload)[ti]
           e      == ScanPair(payload, fault, inventory, region, rtype)
       IN  /\ calls' = calls \o e.calls
           /\ matched' = matched \o e.recs
           /\ UNCHANGED <<response, pc>>
           /\ IF ti < Len(EffectiveTypes(payload))
              THEN ti' = ti + 1 /\ ri' = ri
              ELSE ti' = 1 /\ ri' = ri + 1
    /\ UNCHANGED <<handler, payload, inventory, fault, i, results, errors,
                   todo, dispatched>>

\* One iteration of `for region in regions: for rtype in resource_types`
ListStep ==
    /\ handler = "list"
    /\ pc = "scan"
    /\ ri <= Len(EffectiveRegions(payload))
    /\ LET region == EffectiveRegions(payload)[ri]
           rtype  == EffectiveTypes(payload)[ti]
           e      == ScanPair(payload, fault, inventory, region, rtype)
       IN  /\ calls' = calls \o e.calls
           /\ matched' = matched \o e.recs
           /\ IF e.err # None
              THEN /\ response' = ScanFailure(e.err)
                   /\ pc' = "done"
                   /\ UNCHANGED <<ri, ti>>
              ELSE /\ UNCHANGED <<response, pc>>
                   /\ IF ti < Len(EffectiveTypes(payload))
                      THEN ti' = ti + 1 /\ ri' = ri
                      ELSE ti' = 1 /\ ri' = ri + 1
    /\ UNCHANGED <<handler, payload, inventory, fault, i, results, errors,
                   todo, dispatched>>

\* Both loops are exhausted: return {"count": ..., "resources": matched}
ListReturn ==
    /\ handler = "list"
    /\ pc = "scan"
    /\ ri > Len(EffectiveRegions(payload))
    /\ response' = ScanResult(matched)
    /\ pc' = "done"
    /\ UNCHANGED <<handler, payload, inventory, fault, ri, ti, matched, i,
                   results, errors, todo, calls, dispatched>>

NextList == ListStep \/ ListReturn

SpecList == InitList /\ [][NextList]_vars

-----------------------------------------------------------------------------
(* delete_resources: the deletion orchestrator *)

\* ids and regions the items of a delete request carry
ItemIds == {"res-1", "res-2"}

ItemRegions == {"us-east-1"}

DeleteItems == [resource_type : TypeIds, id : ItemIds, region : ItemRegions]

DeleteRequests == [resources : SeqsUpTo(DeleteItems, MaxItems)]

\* What a provider call does: return, raise ClientError, raise anything else
Outcomes == {"ok"} \cup ErrorKinds

\* Names of the access keys, attached policies and groups a listing call
\* returns, in the order returned
ListedNames ==
    [op \in {"iam.list_access_keys", "iam.list_attached_user_policies",
             "iam.list_groups_for_user"} |->
        CASE op = "iam.list_access_keys" -> <<"key-1", "key-2", "key-3">>
          [] op = "iam.list_attached_user_policies" ->
                 <<"policy-1", "policy-2", "policy-3">>
          [] op = "iam.list_groups_for_user" ->
                 <<"group-1", "group-2", "group-3">>]

\* The possible results of the listing call op: the first n names
Listings(op) == {SubSeq(ListedNames[op], 1, n) : n \in 0..MaxListed}

InitDelete ==
    /\ handler = "delete"
    /\ payload \in DeleteRequests
    /\ inventory = Account(0)
    /\ fault = NoFault
    /\ pc = "next"
    /\ ri = 0
    /\ ti = 0
    /\ matched = <<>>
    /\ calls = <<>>
    /\ response = NoResponse
    /\ i = 1
    /\ results = <<>>
    /\ errors = <<>>
    /\ todo = <<>>
    /\ dispatched = <<>>

\* r, the item of the current iteration of `for r in payload.resources`
Item == payload.resources[i]

\* The loop is at the top of the iteration for an item of type t
AtItem(t) ==
    /\ handler = "delete"
    /\ pc = "next"
    /\ i <= Len(payload.resources)
    /\ Item.resource_type = t

\* The loop is inside the workflow of the current item, at position p
Inside(p) == handler = "delete" /\ pc = p

\* One provider call of the workflow of item i, as recorded in calls
DCall(op, arg, out, ret) ==
    [item |-> i, op |-> op, arg |-> arg, out |-> out, ret |-> ret]

\* results.append({"id": rid, "status": status}); next iteration
Succeed(status) ==
    /\ results' = Append(results, [id |-> Item.id, status |-> status])
    /\ i' = i + 1
    /\ pc' = "next"
    /\ todo' = <<>>
    /\ UNCHANGED <<errors, response>>

\* Mutant of Raise: a ClientError makes the loop try the same item again
Raise_RetriesItem(kind) ==
    IF kind = ClientError
    THEN /\ pc' = "next"
         /\ todo' = <<>>
         /\ UNCHANGED <<i, results, errors, response>>
    ELSE /\ response' = [status |-> 500, detail |-> kind]
         /\ pc' = "done"
         /\ UNCHANGED <<i, results, errors, todo>>

\* A call of the workflow raised an exception of class kind.
\* except ClientError as e: errors.append({"id": rid, "error": str(e)}), and
\* the loop goes on; any other exception leaves the loop and reaches
\* except Exception as e: raise HTTPException(status_code=500, ...)
Raise(kind) ==
    IF kind = ClientError
    THEN /\ errors' = Append(errors, [id |-> Item.id, error |-> kind])
         /\ i' = i + 1
         /\ pc' = "next"
         /\ todo' = <<>>
         /\ UNCHANGED <<results, response>>
    ELSE /\ response' = [status |-> 500, detail |-> kind]
         /\ pc' = "done"
         /\ UNCHANGED <<i, results, errors, todo>>

\* The workflow goes on to position p, its loop having elems to go through
Goto(p, elems) ==
    /\ pc' = p
    /\ todo' = elems
    /\ UNCHANGED <<i, results, errors, response>>

\* The first call of an item's workflow starts the item's call history
First(c) == calls' = <<c>> /\ dispatched' = Append(dispatched, i)

Later(c) == calls' = Append(calls, c) /\ UNCHANGED dispatched

Frame == UNCHANGED <<handler, payload, inventory, fault, ri, ti, matched>>

\* ec2.terminate_instances(InstanceIds=[rid])
Ec2Terminate ==
    /\ AtItem("ec2:instance")
    /\ \E out \in Outcomes :
         /\ First(DCall("ec2.terminate_instances", Item.id, out, <<>>))
         /\ IF out = "ok" THEN Succeed("terminated") ELSE Raise(out)
    /\ Frame

\* Mutant of S3PurgeObjects: the bucket is deleted without being emptied
S3PurgeObjects_DeletesFirst ==
    /\ AtItem("s3:bucket")
    /\ \E out \in Outcomes :
         /\ First(DCall("s3.bucket.delete", Item.id, out, <<>>))
         /\ IF out = "ok" THEN Succeed("deleted") ELSE Raise(out)
    /\ Frame

\* bucket.objects.all().delete()
S3PurgeObjects ==
    /\ AtItem("s3:bucket")
    /\ \E out \in Outcomes :
         /\ First(DCall("s3.objects.delete", Item.id, out, <<>>))
         /\ IF out = "ok" THEN Goto("s3_versions", <<>>) ELSE Raise(out)
    /\ Frame

\* bucket.object_versions.delete()
S3PurgeVersions ==
    /\ Inside("s3_versions")
    /\ \E out \in Outcomes :
         /\ Later(DCall("s3.object_versions.delete", Item.id, out, <<>>))
         /\ IF out = "ok" THEN Goto("s3_bucket", <<>>) ELSE Raise(out)
    /\ Frame

\* bucket.delete()
S3DeleteBucket ==
    /\ Inside("s3_bucket")
    /\ \E out \in Outcomes :
         /\ Later(DCall("s3.bucket.delete", Item.id, out, <<>>))
         /\ IF out = "ok" THEN Succeed("deleted") ELSE Raise(out)
    /\ Frame

\* rds.delete_db_instance(DBInstanceIdentifier=rid, SkipFinalSnapshot=True,
\*                        DeleteAutomatedBackups=True)
RdsDelete ==
    /\ AtItem("rds:db")
    /\ \E out \in Outcomes :
         /\ First(DCall("rds.delete_db_instance", Item.id, out, <<>>))
         /\ IF out = "ok" THEN Succeed("deletion-started") ELSE Raise(out)
    /\ Frame

\* iam.list_access_keys(UserName=rid).get("AccessKeyMetadata", [])
IamListKeys ==
    /\ AtItem("iam:user")
    /\ \E out \in Outcomes :
       \E ks \in IF out = "ok" THEN Listings("iam.list_access_keys") ELSE {<<>>} :
         /\ First(DCall("iam.list_access_keys", Item.id, out, ks))
         /\ IF out = "ok" THEN Goto("iam_keys", ks) ELSE Raise(out)
    /\ Frame

\* iam.delete_access_key(UserName=rid, AccessKeyId=k.get("AccessKeyId"))
IamDeleteKey ==
    /\ Inside("iam_keys")
    /\ todo # <<>>
    /\ \E out \in Outcomes :
         /\ Later(DCall("iam.delete_access_key", Head(todo), out, <<>>))
         /\ IF out = "ok" THEN Goto("iam_keys", Tail(todo)) ELSE Raise(out)
    /\ Frame

\* iam.list_attached_user_policies(UserName=rid).get("AttachedPolicies", [])
IamListPolicies ==
    /\ Inside("iam_keys")
    /\ todo = <<>>
    /\ \E out \in Outcomes :
       \E ps \in IF out = "ok" THEN Listings("iam.list_attached_user_policies")
                 ELSE {<<>>} :
         /\ Later(DCall("iam.list_attached_user_policies", Item.id, out, ps))
         /\ IF out = "ok" THEN Goto("iam_policies", ps) ELSE Raise(out)
    /\ Frame

\* iam.detach_user_policy(UserName=rid, PolicyArn=p.get("PolicyArn"))
IamDetachPolicy ==
    /\ Inside("iam_policies")
    /\ todo # <<>>
    /\ \E out \in Outcomes :
         /\ Later(DCall("iam.detach_user_policy", Head(todo), out, <<>>))
         /\ IF out = "ok" THEN Goto("iam_policies", Tail(todo)) ELSE Raise(out)
    /\ Frame

\* Mutant of IamListGroups: the groups are listed but the user is left in them
IamListGroups_SkipsRemoval ==
    /\ Inside("iam_policies")
    /\ todo = <<>>
    /\ \E out \in Outcomes :
       \E gs \in IF out = "ok" THEN Listings("iam.list_groups_for_user")
                 ELSE {<<>>} :
         /\ Later(DCall("iam.list_groups_for_user", Item.id, out, gs))
         /\ IF out = "ok" THEN Goto("iam_groups", <<>>) ELSE Raise(out)
    /\ Frame

\* iam.list_groups_for_user(UserName=rid).get("Groups", [])
IamListGroups ==
    /\ Inside("iam_policies")
    /\ todo = <<>>
    /\ \E out \in Outcomes :
       \E gs \in IF out = "ok" THEN Listings("iam.list_groups_for_user")
                 ELSE {<<>>} :
         /\ Later(DCall("iam.list_groups_for_user", Item.id, out, gs))
         /\ IF out = "ok" THEN Goto("iam_groups", gs) ELSE Raise(out)
    /\ Frame

\* iam.remove_user_from_group(UserName=rid, GroupName=g.get("GroupName"))
IamRemoveFromGroup ==
    /\ Inside("iam_groups")
    /\ todo # <<>>
    /\ \E out \in Outcomes :
         /\ Later(DCall("iam.remove_user_from_group", Head(todo), out, <<>>))
         /\ IF out = "ok" THEN Goto("iam_groups", Tail(todo)) ELSE Raise(out)
    /\ Frame

\* iam.delete_user(UserName=rid)
IamDeleteUser ==
    /\ Inside("iam_groups")
    /\ todo = <<>>
    /\ \E out \in Outcomes :
         /\ Later(DCall("iam.delete_user", Item.id, out, <<>>))
         /\ IF out = "ok" THEN Succeed("deleted") ELSE Raise(out)
    /\ Frame

\* Mutant of Unsupported: the item is skipped silently, as the scanner does
Unsupported_SilentSkip ==
    /\ handler = "delete"
    /\ pc = "next"
    /\ i <= Len(payload.resources)
    /\ Item.resource_type \notin SupportedTypes
    /\ i' = i + 1
    /\ calls' = <<>>
    /\ dispatched' = Append(dispatched, i)
    /\ UNCHANGED <<pc, todo, results, errors, response>>
    /\ Frame

\* else: errors.append({"id": rid, "error": "unsupported resource type"})
Unsupported ==
    /\ handler = "delete"
    /\ pc = "next"
    /\ i <= Len(payload.resources)
    /\ Item.resource_type \notin SupportedTypes
    /\ errors' = Append(errors,
                        [id |-> Item.id, error |-> "unsupported resource type"])
    /\ i' = i + 1
    /\ calls' = <<>>
    /\ dispatched' = Append(dispatched, i)
    /\ UNCHANGED <<pc, todo, results, response>>
    /\ Frame

\* return {"deleted": results, "errors": errors}
DeleteReturn ==
    /\ handler = "delete"
    /\ pc = "next"
    /\ i > Len(payload.resources)
    /\ response' = [status |-> 200, deleted |-> results, errors |-> errors]
    /\ pc' = "done"
    /\ UNCHANGED <<i, results, errors, todo, calls, dispatched>>
    /\ Frame

NextDelete ==
    \/ Ec2Terminate
    \/ S3PurgeObjects
    \/ S3PurgeVersions
    \/ S3DeleteBucket
    \/ RdsDelete
    \/ IamListKeys
    \/ IamDeleteKey
    \/ IamListPolicies
    \/ IamDetachPolicy
    \/ IamListGroups
    \/ IamRemoveFromGroup
    \/ IamDeleteUser
    \/ Unsupported
    \/ DeleteReturn

SpecDelete == InitDelete /\ [][NextDelete]_vars

-----------------------------------------------------------------------------
(* Round trip: a record of a scan's result is fed back to delete_resources *)

\* The caller builds a delete request of one item from the id and region of
\* a record the scan returned, and from its resource_type or any other type
\* identifier; the scan is over, the deletion starts
FeedBack ==
    /\ handler = "list"
    /\ pc = "done"
    /\ response.status = 200
    /\ \E m \in DOMAIN response.resources :
       \E t \in {response.resources[m].resource_type} \cup TypeIds :
         /\ payload' = [resources |->
                          <<[resource_type |-> t,
                             id |-> response.resources[m].id,
                             region |-> response.resources[m].region]>>]
         /\ matched' = <<response.resources[m]>>
    /\ handler' = "delete"
    /\ inventory' = Account(0)
    /\ fault' = NoFault
    /\ pc' = "next"
    /\ ri' = 0
    /\ ti' = 0
    /\ i' = 1
    /\ results' = <<>>
    /\ errors' = <<>>
    /\ todo' = <<>>
    /\ calls' = <<>>
    /\ dispatched' = <<>>
    /\ response' = NoResponse

NextRoundTrip == NextList \/ FeedBack \/ NextDelete

SpecRoundTrip == InitList /\ [][NextRoundTrip]_vars

-----------------------------------------------------------------------------
(* Properties of delete_resources *)

Deleting == handler = "delete"

\* delete_resources returned {"deleted": ..., "errors": ...}
Returned == Deleting /\ pc = "done" /\ response.status = 200

\* The item whose workflow made the calls in calls
CallsItem == payload.resources[calls[1].item]

Last(q) == q[Len(q)]

\* The step under way appends a success outcome for the current item
AppendsSuccess == Deleting /\ results' # results

\* C1: whatever exception a step of an item's workflow raises, it is captured:
\* the request is never failed, so the handler always ends by returning
\* {deleted, errors}, having dispatched every item of the request.
C1_AnyFailureIsCaptured ==
    (Deleting /\ pc = "done") =>
        /\ response.status = 200
        /\ Len(dispatched) = Len(payload.resources)

\* The calls of a workflow follow steps in order, and a call comes only
\* after every earlier call returned
InOrder(cs, steps) ==
    /\ Len(cs) <= Len(steps)
    /\ \A k \in DOMAIN cs :
         /\ cs[k].op = steps[k]
         /\ k < Len(cs) => cs[k].out = "ok"

S3Steps == <<"s3.objects.delete", "s3.object_versions.delete", "s3.bucket.delete">>

\* C2: for an s3:bucket item the provider calls are object purge, version
\* purge, container delete, in that order, each made only after the one before
\* it returned; and {id, status: "deleted"} is appended only by the step in
\* which the container delete returned.
C2_BucketPurgedBeforeDelete ==
    [][/\ (Deleting /\ calls' # <<>> /\ CallsItem'.resource_type = "s3:bucket")
            => /\ InOrder(calls', S3Steps)
               /\ \A k \in DOMAIN calls' : calls'[k].arg = CallsItem'.id
       /\ (AppendsSuccess /\ Item.resource_type = "s3:bucket")
            => /\ Len(calls') = 3
               /\ Last(calls').op = "s3.bucket.delete"
               /\ Last(calls').out = "ok"
               /\ results' = Append(results, [id |-> Item.id, status |-> "deleted"])
      ]_vars

\* A bucket was purged and deleted, and reported as deleted
C2_Witness ==
    /\ Deleting
    /\ pc = "next"
    /\ Len(calls) = 3
    /\ calls[1].op = "s3.objects.delete"
    /\ calls[3].op = "s3.bucket.delete"
    /\ calls[3].out = "ok"
    /\ results # <<>>
    /\ Last(results).status = "deleted"

\* The stage of the identity-principal workflow a call belongs to
IamStage(op) ==
    CASE op \in {"iam.list_access_keys", "iam.delete_access_key"} -> 1
      [] op \in {"iam.list_attached_user_policies", "iam.detach_user_policy"} -> 2
      [] op \in {"iam.list_groups_for_user", "iam.remove_user_from_group"} -> 3
      [] op = "iam.delete_user" -> 4
      [] OTHER -> 0

\* The call that removes an element returned by the listing call op
RemovalOf(op) ==
    CASE op = "iam.list_access_keys" -> "iam.delete_access_key"
      [] op = "iam.list_attached_user_policies" -> "iam.detach_user_policy"
      [] op = "iam.list_groups_for_user" -> "iam.remove_user_from_group"
      [] OTHER -> None

\* Among the calls cs before position k, every element a listing call
\* returned was removed by a call that returned
AllRemovedBefore(cs, k) ==
    \A a \in 1..(k - 1) :
        \A n \in DOMAIN cs[a].ret :
            \E b \in (a + 1)..(k - 1) :
                /\ cs[b].op = RemovalOf(cs[a].op)
                /\ cs[b].arg = cs[a].ret[n]
                /\ cs[b].out = "ok"

\* C3: for an iam:user item the calls go through the stages access keys,
\* attached policies, group memberships, user, in that order; delete_user is
\* called only when all three listing calls returned and every key, policy
\* and group they returned has been removed; and {id, status: "deleted"} is
\* appended only by the step in which delete_user returned.
C3_PrincipalStrippedBeforeDelete ==
    [][/\ (Deleting /\ calls' # <<>> /\ CallsItem'.resource_type = "iam:user")
            => /\ \A a, b \in DOMAIN calls' :
                    a < b => /\ 1 <= IamStage(calls'[a].op)
                             /\ IamStage(calls'[a].op) <= IamStage(calls'[b].op)
                             /\ calls'[a].out = "ok"
               /\ \A k \in DOMAIN calls' :
                    calls'[k].op = "iam.delete_user"
                        => /\ \A op \in DOMAIN ListedNames :
                                \E a \in 1..(k - 1) : calls'[a].op = op
                           /\ AllRemovedBefore(calls', k)
       /\ (AppendsSuccess /\ Item.resource_type = "iam:user")
            => /\ Last(calls').op = "iam.delete_user"
               /\ Last(calls').out = "ok"
               /\ results' = Append(results, [id |-> Item.id, status |-> "deleted"])
      ]_vars

\* A user with two keys, a policy and a group was stripped and deleted
C3_Witness ==
    /\ Deleting
    /\ pc = "next"
    /\ calls # <<>>
    /\ Last(calls).op = "iam.delete_user"
    /\ Last(calls).out = "ok"
    /\ \E a, b, c, d \in DOMAIN calls :
         /\ a < b
         /\ calls[a].op = "iam.delete_access_key"
         /\ calls[b].op = "iam.delete_access_key"
         /\ calls[c].op = "iam.detach_user_policy"
         /\ calls[d].op = "iam.remove_user_from_group"
    /\ results # <<>>
    /\ Last(results).status = "deleted"

UnsupportedMessage == "unsupported resource type"

\* The positions of seq q whose element satisfies Test
Where(q, Test(_)) == {k \in DOMAIN q : Test(q[k])}

IsUnsupportedItem(r) == r.resource_type \notin SupportedTypes

IsUnsupportedError(e) == e.error = UnsupportedMessage

\* C7: the step for an item of an unsupported type appends exactly
\* {id, error: "unsupported resource type"} to errors, appends nothing to
\* deleted, makes no provider call and goes on to the next item; so a
\* returned response holds one such error per unsupported item, and at most
\* one deleted entry per supported item.
C7_UnsupportedTypeIsPerItemError ==
    [][/\ (Deleting /\ pc = "next" /\ i <= Len(payload.resources)
             /\ IsUnsupportedItem(Item))
            => /\ errors' = Append(errors, [id |-> Item.id,
                                            error |-> UnsupportedMessage])
               /\ results' = results
               /\ calls' = <<>>
               /\ i' = i + 1
               /\ pc' = "next"
               /\ response' = NoResponse
       /\ Returned'
            => /\ Cardinality(Where(response'.errors, IsUnsupportedError))
                    = Cardinality(Where(payload.resources, IsUnsupportedItem))
               /\ Len(response'.deleted)
                    <= Len(payload.resources)
                         - Cardinality(Where(payload.resources, IsUnsupportedItem))
      ]_vars

\* One valid bucket and one "foo:bar" item: one deleted entry, one error
C7_Witness ==
    /\ Returned
    /\ Len(payload.resources) = 2
    /\ payload.resources[1].resource_type = "s3:bucket"
    /\ payload.resources[2].resource_type = "foo:bar"
    /\ response.deleted = <<[id |-> payload.resources[1].id, status |-> "deleted"]>>
    /\ response.errors = <<[id |-> payload.resources[2].id,
                            error |-> UnsupportedMessage]>>

\* The status code of a successful workflow of type t
StatusOf(t) ==
    CASE t = "ec2:instance" -> "terminated"
      [] t = "s3:bucket"    -> "deleted"
      [] t = "rds:db"       -> "deletion-started"
      [] t = "iam:user"     -> "deleted"
      [] OTHER              -> None

\* The items of the request at the positions in S, in request order
RECURSIVE ItemsAt(_, _)
ItemsAt(q, S) ==
    IF q = <<>> THEN <<>>
    ELSE (IF Len(q) \in S THEN ItemsAt(SubSeq(q, 1, Len(q) - 1), S) \o <<Last(q)>>
          ELSE ItemsAt(SubSeq(q, 1, Len(q) - 1), S))

\* C10: when delete_resources returns, every item was dispatched exactly once
\* and in request order, and the items split into those reported in deleted
\* (with the status of their type) and those reported in errors, each list in
\* request order; so len(deleted) + len(errors) is the number of items.
C10_EveryItemReportedOnce ==
    Returned =>
        /\ dispatched = [k \in 1..Len(payload.resources) |-> k]
        /\ Len(response.deleted) + Len(response.errors) = Len(payload.resources)
        /\ \E S \in SUBSET (1..Len(payload.resources)) :
             LET ok  == ItemsAt(payload.resources, S)
                 bad == ItemsAt(payload.resources, (1..Len(payload.resources)) \ S)
             IN  /\ Len(ok) = Len(response.deleted)
                 /\ Len(bad) = Len(response.errors)
                 /\ \A k \in DOMAIN ok :
                      response.deleted[k] =
                          [id |-> ok[k].id, status |-> StatusOf(ok[k].resource_type)]
                 /\ \A k \in DOMAIN bad :
                      /\ response.errors[k].id = bad[k].id
                      /\ DOMAIN response.errors[k] = {"id", "error"}
                      /\ IsUnsupportedItem(bad[k])
                           <=> IsUnsupportedError(response.errors[k])

\* Two items with different ids, the first failed and the second deleted
C10_Witness ==
    /\ Returned
    /\ Len(payload.resources) = 2
    /\ payload.resources[1].id # payload.resources[2].id
    /\ Len(response.deleted) = 1
    /\ Len(response.errors) = 1
    /\ response.errors[1].id = payload.resources[1].id
    /\ response.errors[1].error = ClientError

\* The types whose deletion workflow has more than one step
MultiStepTypes == {"s3:bucket", "iam:user"}

\* C16: when a step of the workflow of a bucket or a user fails, whatever it
\* raised, the workflow stops there: the failing call is the last call made
\* for the item, the request is not failed, and the item is reported once, in
\* errors and not in deleted.
C16_WorkflowStopsAtFirstFailure ==
    (Deleting /\ calls # <<>> /\ CallsItem.resource_type \in MultiStepTypes) =>
        \A k \in DOMAIN calls :
            calls[k].out # "ok" =>
                /\ k = Len(calls)
                /\ pc = "done" => response.status = 200
                /\ Len(results) + Len(errors) = calls[k].item
                /\ errors # <<>>
                /\ Last(errors) = [id |-> CallsItem.id, error |-> calls[k].out]

-----------------------------------------------------------------------------
(* Properties of list_resources *)

Listing == handler = "list"

\* list_resources returned {"count": ..., "resources": ...}
Scanned == Listing /\ pc = "done" /\ response.status = 200

\* The (region, type) pairs of the request, as pairs of loop indices
Pairs(p) == (DOMAIN EffectiveRegions(p)) \X (DOMAIN EffectiveTypes(p))

\* The pairs whose type has a branch
SupportedPairs(p) ==
    {rt \in Pairs(p) : EffectiveTypes(p)[rt[2]] \in SupportedTypes}

\* Some call of op was made
Called(op) == \E k \in DOMAIN calls : calls[k].op = op

\* The tag-fetch calls whose ClientError is caught inside the iteration
GuardedTagOps == {"s3.get_bucket_tagging", "iam.list_user_tags"}

\* The status the request fails with for an exception of class kind
FailureStatus(kind) == IF kind = ClientError THEN 400 ELSE 500

\* The scan was aborted by the call at position k of calls: it is the last
\* call made, and the request failed with the status of its exception, with
\* no count and no resources
AbortedAt(k) ==
    /\ k = Len(calls)
    /\ pc = "done"
    /\ response = [status |-> FailureStatus(fault.kind), detail |-> fault.kind]

\* C4 as stated: any provider call that raises during a (region, type)
\* iteration aborts the whole scan, with 400 for a ClientError and 500 for
\* anything else, no later call and no partial result.
C4_AnyProviderErrorAborts ==
    Listing =>
        \A k \in DOMAIN calls :
            Raises(fault, calls[k].op) # None => AbortedAt(k)

\* C4 amended: the same, except for a ClientError of the tag-fetch call of
\* s3:bucket or iam:user, which is caught inside the iteration; and the
\* request fails only when a call raised.
C4_UncaughtProviderErrorAborts ==
    Listing =>
        /\ \A k \in DOMAIN calls :
             (/\ Raises(fault, calls[k].op) # None
              /\ ~(calls[k].op \in GuardedTagOps /\ fault.kind = ClientError))
                 => AbortedAt(k)
        /\ (pc = "done" /\ response.status # 200)
             => /\ calls # <<>>
                /\ Raises(fault, calls[Len(calls)].op) # None
                /\ AbortedAt(Len(calls))

\* A scan that had matched records and had pairs left was aborted with 400
C4_Witness ==
    /\ Listing
    /\ pc = "done"
    /\ response.status = 400
    /\ matched # <<>>
    /\ <<ri, ti>> # <<Len(EffectiveRegions(payload)), Len(EffectiveTypes(payload))>>

\* The tags list_resources fetched for raw record raw of type t: the tag
\* fetch of a bucket or a user that raised ClientError left them empty
FetchedTags(t, raw) ==
    IF t \in {"s3:bucket", "iam:user"} /\ fault.op \in GuardedTagOps
          /\ fault.op = (IF t = "s3:bucket" THEN "s3.get_bucket_tagging"
                         ELSE "iam.list_user_tags")
    THEN NoTags
    ELSE TagMap(raw.Tags)

\* The response holds the record of raw record raw, listed for (region, t)
InResult(region, t, raw) ==
    \E m \in DOMAIN response.resources :
        /\ response.resources[m].id = raw.id
        /\ response.resources[m].resource_type = t
        /\ response.resources[m].region = region
        /\ response.resources[m].tags = FetchedTags(t, raw)

\* C5: with scope "tag", a record listed for any of the four types is in the
\* result if and only if tag_key is among its tags and tag_value is unset or
\* equal to its value for that key.
C5_TagScopeKeepsExactlyMatches ==
    (Scanned /\ payload.filter_scope = "tag") =>
        \A rt \in SupportedPairs(payload) :
            LET region == EffectiveRegions(payload)[rt[1]]
                t      == EffectiveTypes(payload)[rt[2]]
            IN  \A j \in DOMAIN inventory[t] :
                    LET tags == FetchedTags(t, inventory[t][j])
                    IN  InResult(region, t, inventory[t][j])
                          <=> /\ payload.tag_key \in DOMAIN tags
                              /\ \/ payload.tag_value = None
                                 \/ tags[payload.tag_key] = payload.tag_value

\* A tag scan with a tag_value kept some of the listed records and dropped
\* others, among them one that has the key with another value
C5_Witness ==
    /\ Scanned
    /\ payload.filter_scope = "tag"
    /\ payload.tag_value # None
    /\ response.count > 0
    /\ \E rt \in SupportedPairs(payload) :
         LET t == EffectiveTypes(payload)[rt[2]]
         IN  \E j \in DOMAIN inventory[t] :
               /\ payload.tag_key \in DOMAIN TagMap(inventory[t][j].Tags)
               /\ ~InResult(EffectiveRegions(payload)[rt[1]], t, inventory[t][j])

\* Every raw record a lister returns during the scan of p, with the pair it
\* is listed for
ListedRecords(p) ==
    UNION {{<<rt, j>> : j \in DOMAIN inventory[EffectiveTypes(p)[rt[2]]]} :
              rt \in SupportedPairs(p)}

\* C6: with scope "account" or "org", every record a lister of a supported
\* type returned is in the result, whatever its tags and whatever tag_key,
\* tag_value and account_ids are: the result holds one record per listed
\* record.
C6_AccountScopeKeepsAll ==
    (Scanned /\ payload.filter_scope \in {"account", "org"}) =>
        /\ \A rt \in SupportedPairs(payload) :
             LET region == EffectiveRegions(payload)[rt[1]]
                 t      == EffectiveTypes(payload)[rt[2]]
             IN  \A j \in DOMAIN inventory[t] :
                    InResult(region, t, inventory[t][j])
        /\ response.count = Cardinality(ListedRecords(payload))
        /\ response.count = Len(response.resources)

\* An "org" scan with a tag_key and a tag_value set returned a record that
\* has no tags
C6_Witness ==
    /\ Scanned
    /\ payload.filter_scope = "org"
    /\ payload.tag_key = "Owner"
    /\ payload.tag_value # None
    /\ \E m \in DOMAIN response.resources :
         response.resources[m].tags = NoTags

\* The request p without the unsupported identifiers of its resource_types
WithoutUnsupported(p) ==
    [p EXCEPT !.resource_types =
        SelectSeq(p.resource_types, LAMBDA t : t \in SupportedTypes)]

NamesUnsupported(p) ==
    \E k \in DOMAIN p.resource_types : p.resource_types[k] \notin SupportedTypes

\* The iteration for an unsupported type makes no call, adds no record and
\* raises nothing
SkipsSilently ==
    (Listing /\ pc = "scan" /\ ri <= Len(EffectiveRegions(payload))
        /\ EffectiveTypes(payload)[ti] \notin SupportedTypes)
      => /\ calls' = calls
         /\ matched' = matched
         /\ response' = response
         /\ pc' = pc

\* The scan ended as the scan of request q does: same response, same calls
EndsAs(q) ==
    /\ response = Scan(q, fault, inventory).response
    /\ calls = Scan(q, fault, inventory).calls

\* C8 as stated: the result of a scan is the result of the scan of the
\* request with the unsupported identifiers removed from resource_types.
C8_SameAsWithoutUnsupported ==
    (Listing /\ pc = "done" /\ NamesUnsupported(payload))
        => response = Scan(WithoutUnsupported(payload), fault, inventory).response

\* C8 amended: the iteration for an unsupported identifier makes no call,
\* adds no record and raises nothing; and the scan ends as the scan of the
\* request with the unsupported identifiers removed, provided a supported
\* identifier is left in resource_types (an empty list selects the four
\* default types).
C8_UnsupportedTypeIsSkipped ==
    /\ [][SkipsSilently]_vars
    /\ []((Listing /\ pc = "done" /\ NamesUnsupported(payload)
             /\ WithoutUnsupported(payload).resource_types # <<>>)
            => EndsAs(WithoutUnsupported(payload)))

\* A scan of ["foo:bar", <a supported type>] returned records
C8_Witness ==
    /\ Scanned
    /\ Len(payload.resource_types) = 2
    /\ payload.resource_types[1] = "foo:bar"
    /\ payload.resource_types[2] \in SupportedTypes
    /\ response.count > 0

\* C9, for a ClientError of the tag-fetch call: when the tag-fetch call of
\* s3:bucket, rds:db or iam:user raises, the scan is not aborted and the
\* records of that type get an empty tags map.
C9_TagFetchFailureDegrades ==
    (/\ Listing
     /\ pc = "done"
     /\ fault.op \in TagOps
     /\ fault.kind = ClientError
     /\ Called(fault.op))
        => /\ response.status = 200
           /\ \A k \in DOMAIN response.resources :
                fault.op \in OpsOf(response.resources[k].resource_type,
                                   <<response.resources[k]>>)
                   => response.resources[k].tags = NoTags

-----------------------------------------------------------------------------
(* Further properties of list_resources *)

\* The (region, type) pairs of request p in the order claimed: every type of
\* the first region, then every type of the second region, and so on
PairSeq(p) ==
    LET R == EffectiveRegions(p)
        T == EffectiveTypes(p)
    IN  [k \in 1..(Len(R) * Len(T)) |->
            [region |-> R[((k - 1) \div Len(T)) + 1],
             rtype  |-> T[((k - 1) % Len(T)) + 1]]]

\* The pairs of PairSeq(p) that have a lister
ListedPairSeq(p) ==
    SelectSeq(PairSeq(p), LAMBDA x : x.rtype \in SupportedTypes)

\* The listing calls among the calls made
ListerCalls == SelectSeq(calls, LAMBDA c : c.op \in ListOps)

\* The type a listing call lists
ListedBy(op) ==
    CASE op = "ec2.describe_instances"    -> "ec2:instance"
      [] op = "s3.list_buckets"           -> "s3:bucket"
      [] op = "rds.describe_db_instances" -> "rds:db"
      [] op = "iam.list_users"            -> "iam:user"

\* <<id, resource_type, region>> of every record the listers return, pair by
\* pair from pair k of q on, each listing in the order returned
RECURSIVE ListedFrom(_, _)
ListedFrom(q, k) ==
    IF k > Len(q) THEN <<>>
    ELSE [j \in DOMAIN inventory[q[k].rtype] |->
             <<inventory[q[k].rtype][j].id, q[k].rtype, q[k].region>>]
         \o ListedFrom(q, k + 1)

\* a from position x on is a subsequence of b from position y on
RECURSIVE IsSubseqFrom(_, _, _, _)
IsSubseqFrom(a, x, b, y) ==
    IF x > Len(a) THEN TRUE
    ELSE IF y > Len(b) THEN FALSE
    ELSE IF a[x] = b[y] THEN IsSubseqFrom(a, x + 1, b, y + 1)
    ELSE IsSubseqFrom(a, x, b, y + 1)

\* C12: the listers are invoked pair by pair with region as the outer loop
\* and type as the inner loop, in the order of the effective lists (ec2 and
\* rds in the region of the pair); and the records of the result are in that
\* order: all records of an earlier pair before any record of a later pair,
\* those of one pair in the order listed.
C12_RegionOuterTypeInner ==
    Listing =>
        LET lc == ListerCalls
            lp == ListedPairSeq(payload)
        IN  /\ Len(lc) <= Len(lp)
            /\ \A k \in DOMAIN lc :
                 /\ ListedBy(lc[k].op) = lp[k].rtype
                 /\ lc[k].region \in {None, lp[k].region}
                 /\ lp[k].rtype \in {"ec2:instance", "rds:db"}
                      => lc[k].region = lp[k].region
            /\ Scanned =>
                 LET got == [m \in DOMAIN response.resources |->
                                <<response.resources[m].id,
                                  response.resources[m].resource_type,
                                  response.resources[m].region>>]
                     all == ListedFrom(lp, 1)
                 IN  /\ Len(lc) = Len(lp)
                     /\ IsSubseqFrom(got, 1, all, 1)

\* A scan of two types in two regions returned records of all four pairs
C12_Witness ==
    /\ Scanned
    /\ Len(payload.regions) = 2
    /\ payload.regions[1] # payload.regions[2]
    /\ payload.resource_types = <<"rds:db", "ec2:instance">>
    /\ Len(ListerCalls) = 4
    /\ \A r \in {1, 2} : \A t \in {1, 2} :
         \E m \in DOMAIN response.resources :
            /\ response.resources[m].region = payload.regions[r]
            /\ response.resources[m].resource_type = payload.resource_types[t]

\* The identifiers the lister of type t returns
ListedIds(t) ==
    IF t \in SupportedTypes
    THEN {inventory[t][j].id : j \in DOMAIN inventory[t]}
    ELSE {}

\* A well-formed record: a non-empty id, which is the identifier of a record
\* the lister of its type returned, and one of the four supported types
WellFormed(rec) ==
    /\ rec.resource_type \in SupportedTypes
    /\ rec.id # None
    /\ rec.id # ""
    /\ rec.id \in ListedIds(rec.resource_type)

\* C13: every record list_resources has matched so far, and every record of
\* the result it returns, has a non-empty id and a resource_type that is one
\* of the four supported identifiers.
C13_RecordsAreWellFormed ==
    Listing =>
        /\ \A m \in DOMAIN matched : WellFormed(matched[m])
        /\ Scanned => \A m \in DOMAIN response.resources :
                          WellFormed(response.resources[m])

\* A scan of the four default types returned records of each of them
C13_Witness ==
    /\ Scanned
    /\ payload.resource_types = <<>>
    /\ \A t \in SupportedTypes :
         \E m \in DOMAIN response.resources :
            response.resources[m].resource_type = t

\* What identifies a resource: (id, resource_type, region, account_id)
KeyOf(rec) == <<rec.id, rec.resource_type, rec.region, rec.account_id>>

\* C14: no two records of the result of one list_resources call share the
\* same (id, resource_type, region, account_id), whatever the request.
C14_NoTwoRecordsShareKey ==
    Scanned =>
        \A m, n \in DOMAIN response.resources :
            m # n => KeyOf(response.resources[m]) # KeyOf(response.resources[n])

\* The listing and tag-fetch calls of a call sequence, with their arguments
QueryCalls(cs) == SelectSeq(cs, LAMBDA c : c.op \in ListOps \cup TagOps)

\* The request p with no filter: scope "account", no tag_key, no tag_value
Unfiltered(p) ==
    [p EXCEPT !.filter_scope = "account", !.tag_key = None, !.tag_value = None]

\* C15: the listing and tag-fetch calls a finished scan has made, and their
\* arguments, are those the scan of the same request with scope "account"
\* and no tag_key and no tag_value makes against the same provider; so any
\* two requests that differ only in scope, tag_key and tag_value make the
\* same sequence of such calls.
C15_FilterDoesNotChangeCalls ==
    (Listing /\ pc = "done") =>
        QueryCalls(calls)
            = QueryCalls(Scan(Unfiltered(payload), fault, inventory).calls)

\* A tag scan dropped some listed records after having fetched tags
C15_Witness ==
    /\ Scanned
    /\ payload.filter_scope = "tag"
    /\ payload.tag_key = "Owner"
    /\ payload.tag_value # None
    /\ \E k \in DOMAIN calls : calls[k].op \in TagOps
    /\ response.count > 0
    /\ response.count < Cardinality(ListedRecords(payload))

\* C18: a scan with scope "tag" and a tag_key that is absent or empty is not
\* rejected: it fails only when a provider call raised; it matches no record,
\* whatever the tags of the listed records and whatever tag_value is; and
\* when it returns it has made the listing call of every pair of the
\* effective regions and types and returns count 0 with no resources.
C18_TagScopeWithoutKeyMatchesNothing ==
    (Listing /\ payload.filter_scope = "tag" /\ ~Truthy(payload.tag_key)) =>
        /\ matched = <<>>
        /\ pc = "done" =>
             /\ response.status # 200
                  => /\ calls # <<>>
                     /\ Raises(fault, calls[Len(calls)].op) # None
             /\ response.status = 200
                  => /\ response.count = 0
                     /\ response.resources = <<>>
                     /\ [k \in DOMAIN ListerCalls |-> ListerCalls[k].op]
                          = [k \in DOMAIN ListedPairSeq(payload) |->
                                ListOp(ListedPairSeq(payload)[k].rtype)]

\* A tag scan with an empty tag_key listed tagged records of two types in two
\* regions and returned nothing
C18_Witness ==
    /\ Scanned
    /\ payload.filter_scope = "tag"
    /\ payload.tag_key = ""
    /\ payload.tag_value # None
    /\ Len(ListerCalls) = 4
    /\ \E k \in DOMAIN calls : calls[k].op \in TagOps
    /\ Cardinality(ListedRecords(payload)) > 0
    /\ response.count = 0

\* The types whose service is global: their client is not bound to the
\* region of the iteration
GlobalTypes == {"s3:bucket", "iam:user"}

\* No entry of sequence q is repeated
Distinct(q) == \A a, b \in DOMAIN q : a # b => q[a] # q[b]

\* The positions of the result that hold raw record raw of type t with
\* region value region
Copies(region, t, raw) ==
    {m \in DOMAIN response.resources :
        /\ response.resources[m].id = raw.id
        /\ response.resources[m].resource_type = t
        /\ response.resources[m].region = region}

\* C19: in a scan with scope "account" or "org" over R distinct regions, a
\* global type that is scanned is listed once per region, each of its
\* buckets or users is in the result exactly once with each region value, R
\* times in all, and count includes every copy.
C19_GlobalTypesOncePerRegion ==
    (/\ Scanned
     /\ payload.filter_scope \in {"account", "org"}
     /\ Distinct(EffectiveRegions(payload))) =>
        /\ response.count = Len(response.resources)
        /\ \A k \in DOMAIN EffectiveTypes(payload) :
             LET t == EffectiveTypes(payload)[k]
             IN  t \in GlobalTypes =>
                   /\ Len(SelectSeq(calls, LAMBDA c : c.op = ListOp(t)))
                        = Len(EffectiveRegions(payload))
                   /\ \A j \in DOMAIN inventory[t] :
                        \A r \in DOMAIN EffectiveRegions(payload) :
                           Cardinality(Copies(EffectiveRegions(payload)[r], t,
                                              inventory[t][j])) = 1

-----------------------------------------------------------------------------
(* Properties of the round trip *)

\* The item of the round trip has been through the dispatch
RoundTripDispatched == Deleting /\ matched # <<>> /\ dispatched # <<>>

\* The dispatch refused an item as unsupported
Refused == \E k \in DOMAIN errors : IsUnsupportedError(errors[k])

\* C11: every record a scan emits has one of the four supported types; a
\* delete item built from the id and region of an emitted record is refused
\* by the dispatch ("unsupported resource type") if and only if its
\* resource_type is not one of the four; so an item that keeps the record's
\* resource_type is never refused.
C11_EmittedRecordsAreAccepted ==
    /\ Listing => \A k \in DOMAIN matched :
                      matched[k].resource_type \in SupportedTypes
    /\ RoundTripDispatched =>
         /\ payload.resources[1].id = matched[1].id
         /\ payload.resources[1].region = matched[1].region
         /\ Refused <=> payload.resources[1].resource_type \notin SupportedTypes
         /\ payload.resources[1].resource_type = matched[1].resource_type
              => ~Refused

\* A user found by a scan was fed back unchanged and deleted
C11_Witness ==
    /\ Returned
    /\ matched # <<>>
    /\ matched[1].resource_type = "iam:user"
    /\ payload.resources[1].resource_type = "iam:user"
    /\ response.deleted = <<[id |-> matched[1].id, status |-> "deleted"]>>
    /\ response.errors = <<>>


\* The provider operations that remove or change a resource
RemovingOps ==
    {"ec2.terminate_instances", "s3.objects.delete",
     "s3.object_versions.delete", "s3.bucket.delete",
     "rds.delete_db_instance", "iam.delete_access_key",
     "iam.detach_user_policy", "iam.remove_user_from_group",
     "iam.delete_user"}

\* C17: list_resources is read-only: every call it makes, whatever the
\* request and whatever the provider does, is a listing, tag-fetch or
\* identity call, never a terminate, purge, detach, remove or delete call;
\* such a call is only ever made by delete_resources.
C17_ListIsReadOnly ==
    /\ Listing =>
         \A k \in DOMAIN calls :
            /\ calls[k].op \in ListOps \cup TagOps \cup IdentityOps
            /\ calls[k].op \notin RemovingOps
    /\ \A k \in DOMAIN calls : calls[k].op \in RemovingOps => Deleting

\* A scan that listed, fetched tags, resolved the identity and kept records
\* of every type
C17_Witness ==
    /\ Scanned
    /\ response.count > 0
    /\ \A t \in SupportedTypes :
         \E m \in DOMAIN response.resources :
            response.resources[m].resource_type = t
    /\ \E k \in DOMAIN calls : calls[k].op \in ListOps
    /\ \E k \in DOMAIN calls : calls[k].op \in TagOps
    /\ \E k \in DOMAIN calls : calls[k].op \in IdentityOps

=============================================================================
